---- MODULE Spec2Model ----
(***************************************************************************)
(* One accepted connection of the socket.io server core: the connection   *)
(* loop (socket.loop), the per-namespace views (nspSocket), the event      *)
(* dispatcher (socketHandler.onPacket / onAck), the ack correlator         *)
(* (nspSocket.sendId / nspEmit) and the room glue (Join / Leave /          *)
(* LeaveAll).  Strings that the code formats or tests by prefix            *)
(* (namespace names, room names) are sequences of one-character strings,   *)
(* so that fmt.Sprintf("%s:%s", ...) is a concatenation and                *)
(* strings.HasPrefix is a comparison of an initial segment.                *)
(***************************************************************************)
EXTENDS Integers, Sequences, FiniteSets, TLC

(* ------------------------------ bounds -------------------------------- *)

\* Largest value of the signed ack id counter (Go's int, scaled down so that
\* the wrap of sendId is reached).
MaxInt == 1

\* Number of ack-expecting Emit calls (continuations) in one run.
MaxEmits == 3

MinInt == -MaxInt - 1

(* ------------------------------ names --------------------------------- *)

Root == <<>>
Chat == << "/", "c" >>
Nope == << "/", "n" >>

\* The namespaces the server has registered (newSocket builds one view each).
Namespaces == {Root, Chat}

\* The NSP values an inbound packet may carry.
WireNsps == {Root, Chat, Nope}

\* The rooms the application passes to Join and Leave.
RoomArgs == { << "a" >>, << "b" >> }

\* Application tasks that call Emit concurrently with the connection loop.
Tasks == {"t1", "t2"}

\* Event names of inbound EVENT packets (decoder.Message()).
Messages == {"hello", "xyzzy"}

\* Event names the application registers handlers for.
HandlerNames == {"connection", "disconnection", "hello"}

\* The handlers the application registers with On: namespace and event name.
OnArgs == { << Root, "hello" >>, << Chat, "hello" >>, << Chat, "disconnection" >> }

EventTypes == {"EVENT", "BINARY_EVENT"}
AckTypes == {"ACK", "BINARY_ACK"}
PacketTypes == {"CONNECT", "DISCONNECT", "ERROR"} \cup EventTypes \cup AckTypes

\* What a handler may return: a sequence of values whose last may be an error.
Err == "error"
HandlerReturns == { <<>>, << "v" >>, << Err >>, << "v", Err >> }

\* The Id of an inbound EVENT: none, or one that asks for an ACK.
EventIds == {-1, 1}

Toks == 1..MaxEmits
AckIds == -1..MaxInt

\* The absent entry of the ack table (a nil *caller).
NoCaller == 0

VARIABLES
    pc,            \* position of socket.loop: "start", "read", "closed"
    exitReason,    \* why socket.loop returned ("none" while it runs)
    conn,          \* the transport: "open" or "closed"
    events,        \* baseHandler.events of each namespace (set of event names)
    rooms,         \* socketHandler.rooms of each view
    disconnected,  \* the disconnected flag of each view
    connected,     \* nspSocket.connected of each view
    members,       \* the adaptor's rooms that hold this socket
    id,            \* socket.id, the ack id counter
    acks,          \* socket.acks: ack id -> continuation
    nextTok,       \* the next continuation (caller) an Emit will create
    invoked,       \* how many times each continuation was called
    task,          \* each application task's position inside Emit
    wire,          \* ack ids of EVENT packets the peer has received, not yet acked
    sentDisc,      \* views that have encoded a DISCONNECT packet to the peer
    recvDisc,      \* views that a DISCONNECT packet was dispatched to
    fate,          \* continuations removed from the ack table without a call
    held,          \* the application holds the socket (a handler was called with it)
    connDisp,      \* views that a CONNECT packet was dispatched to
    last           \* what the last step did (observation only)

vars == << pc, exitReason, conn, events, rooms, disconnected, connected, members,
           id, acks, nextTok, invoked, task, wire, sentDisc, recvDisc, fate, held,
           connDisp, last >>

(* ------------------------------ helpers ------------------------------- *)

\* strings.HasPrefix(s, p)
HasPrefix(s, p) == Len(s) >= Len(p) /\ SubSeq(s, 1, Len(p)) = p

\* broadcastName without the namespace prefix.
broadcastName_bare(name, room) == room

\* baseHandler.broadcastName: fmt.Sprintf("%s:%s", h.name, room)
broadcastName(name, room) == name \o << ":" >> \o room

\* socketHandler.Rooms of view v
Rooms(v) == { room \in rooms[v] : HasPrefix(room, v \o << ":" >>) }

\* socket.namespace: the view of nsp, the root view when there is none.
NoView == << "nil" >>
nspsLookup(nsp) == IF nsp \in Namespaces THEN nsp ELSE NoView
\* socket.namespace without the fallback to the root view.
namespace_strict(nsp) == nspsLookup(nsp)

namespace(nsp) ==
    LET n == nspsLookup(nsp)
    IN  IF n = NoView THEN nspsLookup(Root) ELSE n

\* n.id++ ; if n.id < 0 { n.id = 0 }   (signed wrap-around of int)
IncWrap(i) == IF i = MaxInt THEN MinInt ELSE i + 1
\* sendId without the reset of a negative counter.
NextId_nowrap(i) == IncWrap(i)

NextId(i) == IF IncWrap(i) < 0 THEN 0 ELSE IncWrap(i)

\* onPacket's split of the handler's return values: (ret, err)
HasErr(retV) == Len(retV) > 0 /\ retV[Len(retV)] = Err
RetData(retV) == IF HasErr(retV) THEN SubSeq(retV, 1, Len(retV) - 1) ELSE retV

\* An application task that is not inside Emit.
IdleTask == [pc |-> "idle", view |-> Root, event |-> "", pktId |-> -1, ret |-> -1,
             tok |-> 0]

\* The observation of a step: which operation ran, on what, and what it did.
NoLast == [op |-> "none", type |-> "", nsp |-> Root, id |-> -1, view |-> Root,
           msg |-> "", called |-> FALSE, herr |-> FALSE, ack |-> << >>,
           found |-> FALSE, expected |-> FALSE, wasDisc |-> FALSE, ok |-> FALSE,
           name |-> << >>, was |-> FALSE, tok |-> 0,
           exit |-> FALSE, had |-> {}, left |-> {}, closed |-> FALSE,
           discCalled |-> {}]

(* ------------------------------ Init ---------------------------------- *)

Init ==
    /\ pc = "start"
    /\ exitReason = "none"
    /\ conn = "open"
    /\ events = [n \in Namespaces |-> IF n = Root THEN {"connection"} ELSE {}]
    /\ rooms = [n \in Namespaces |-> {}]
    /\ disconnected = [n \in Namespaces |-> FALSE]
    /\ connected = [n \in Namespaces |-> FALSE]
    /\ members = {}
    /\ id = 0
    /\ acks = [i \in AckIds |-> NoCaller]
    /\ nextTok = 1
    /\ invoked = [k \in Toks |-> 0]
    /\ task = [t \in Tasks |-> IdleTask]
    /\ wire = {}
    /\ sentDisc = {}
    /\ recvDisc = {}
    /\ fate = [k \in Toks |-> ""]
    /\ held = FALSE
    /\ connDisp = {}
    /\ last = NoLast

(* --------------------------- the adaptor ------------------------------ *)

\* BroadcastAdaptor.Join / Leave for this socket: membership by room name;
\* leaving a room the socket is not in changes nothing.
AdaptorJoin(m, name) == m \cup {name}
AdaptorLeave(m, name) == m \ {name}

(* ------------------------------ rooms --------------------------------- *)

\* socketHandler.Join(room); aerr: the adaptor's Join returns an error.
Join(v, room, aerr) ==
    LET roomName == broadcastName(v, room)
    IN  /\ held
        /\ members' = IF aerr THEN members ELSE AdaptorJoin(members, roomName)
        /\ rooms' = IF aerr THEN rooms ELSE [rooms EXCEPT ![v] = @ \cup {roomName}]
        /\ last' = [NoLast EXCEPT !.op = "join", !.ok = ~aerr]
        /\ UNCHANGED << connDisp, pc, exitReason, conn, events, disconnected, recvDisc, connected,
                        id, acks, nextTok, invoked, fate, task, wire, sentDisc, held >>

\* Leave without the delete(h.rooms, roomName).
LeaveRooms_keep(set, roomName) == set

\* The room set after Leave deleted roomName from it.
LeaveRooms(set, roomName) == set \ {roomName}

\* socketHandler.Leave(room); aerr: the adaptor's Leave returns an error.
Leave(v, room, aerr) ==
    LET roomName == broadcastName(v, room)
    IN  /\ held
        /\ members' = IF aerr THEN members ELSE AdaptorLeave(members, roomName)
        /\ rooms' = IF aerr THEN rooms
                    ELSE [rooms EXCEPT ![v] = LeaveRooms(@, roomName)]
        /\ last' = IF aerr THEN [NoLast EXCEPT !.op = "leave"]
                    ELSE [NoLast EXCEPT !.op = "leave", !.view = v, !.name = roomName,
                                        !.ok = TRUE, !.was = roomName \in rooms[v]]
        /\ UNCHANGED << connDisp, pc, exitReason, conn, events, disconnected, recvDisc, connected,
                        id, acks, nextTok, invoked, fate, task, wire, sentDisc, held >>

\* socketHandler.LeaveAll: the names it passes to the adaptor's Leave for the
\* rooms `done` of the set (all of them unless the adaptor returned an error).
LeaveAllNames(v, done) == { broadcastName(v, room) : room \in done }

\* The adaptor's membership after LeaveAll of view v went through `done`.
LeaveAllMembers(m, v, done) == m \ LeaveAllNames(v, done)

\* The room set of view v after LeaveAll (it deletes nothing from h.rooms).
LeaveAllRooms(v) == rooms[v]

(* --------------------------- disconnecting ---------------------------- *)

\* encoder.Encode succeeds while the transport is open.
EncodeOk(c) == c = "open"

\* Disconnect on the root view without socket.Disconnect's conn.Close().
DisconnectConn_never(v, c) == c

\* nspSocket.Disconnect: DISCONNECT packet on a non-root view, conn.Close() on
\* the root view.
DisconnectConn(v, c) == IF v # Root THEN c ELSE "closed"
DisconnectSent(v, c, sent) ==
    IF v # Root /\ EncodeOk(c) THEN sent \cup {v} ELSE sent

Disconnect(v) ==
    /\ held
    /\ conn' = DisconnectConn(v, conn)
    /\ sentDisc' = DisconnectSent(v, conn, sentDisc)
    /\ last' = [NoLast EXCEPT !.op = "disconnect", !.view = v]
    /\ UNCHANGED << connDisp, pc, exitReason, held, events, rooms, disconnected, recvDisc, connected,
                    members, id, acks, nextTok, invoked, fate, task, wire >>

\* The peer (or the network) closes the transport.
PeerClose ==
    /\ conn = "open"
    /\ conn' = "closed"
    /\ last' = [NoLast EXCEPT !.op = "close"]
    /\ UNCHANGED << connDisp, pc, exitReason, events, rooms, disconnected, recvDisc, connected,
                    members, id, acks, nextTok, invoked, fate, task, wire, sentDisc, held >>

\* On that stores the handler whether or not newCaller accepts f.
On_always(ns, ev, valid) ==
    /\ events' = [events EXCEPT ![ns] = @ \cup {ev}]
    /\ last' = [NoLast EXCEPT !.op = "on", !.ok = valid]
    /\ UNCHANGED << connDisp, pc, exitReason, conn, rooms, disconnected, recvDisc, connected,
                    members, id, acks, nextTok, invoked, fate, task, wire, sentDisc, held >>

\* baseHandler.On(event, f); valid: newCaller accepts f.
On(ns, ev, valid) ==
    /\ events' = IF valid THEN [events EXCEPT ![ns] = @ \cup {ev}] ELSE events
    /\ last' = [NoLast EXCEPT !.op = "on", !.ok = valid]
    /\ UNCHANGED << connDisp, pc, exitReason, conn, rooms, disconnected, recvDisc, connected,
                    members, id, acks, nextTok, invoked, fate, task, wire, sentDisc, held >>

(* ------------------------ the connection loop ------------------------- *)

\* The views the deferred cleanup of socket.loop works on.
CleanupViews == { v \in Namespaces : ~disconnected[v] }

\* The outcomes of the LeaveAll calls of a cleanup: for each view the rooms
\* whose adaptor Leave returned nil (every room, unless the adaptor failed).
CleanupDone == { d \in [Namespaces -> SUBSET UNION { rooms[v] : v \in Namespaces }] :
                   \A v \in Namespaces : d[v] \subseteq rooms[v] }

\* The deferred cleanup calls a "disconnection" handler (when it runs).
CleanupCalls == \E v \in CleanupViews : "disconnection" \in events[v]

\* v.disconnected after the deferred cleanup.
CleanupDisconnected == [v \in Namespaces |-> TRUE]

\* The deferred function of socket.loop, run when the loop returns with
\* `reason`; obs is the observation of the step that made the loop return.
Cleanup(reason, obs, done) ==
    /\ pc' = "closed"
    /\ exitReason' = reason
    /\ members' = members \ UNION { LeaveAllNames(v, done[v]) : v \in CleanupViews }
    /\ rooms' = [v \in Namespaces |->
                    IF v \in CleanupViews THEN LeaveAllRooms(v) ELSE rooms[v]]
    /\ disconnected' = CleanupDisconnected
    /\ recvDisc' = recvDisc \cup CleanupViews
                             \cup (IF obs.type = "DISCONNECT" THEN {obs.view} ELSE {})
    /\ held' = (held \/ obs.called \/ CleanupCalls)
    /\ last' = [obs EXCEPT !.exit = TRUE,
                           !.discCalled = @ \cup { v \in CleanupViews :
                                                     "disconnection" \in events[v] },
                           !.had = UNION { rooms[v] : v \in CleanupViews },
                           !.left = UNION { LeaveAllNames(v, done[v]) : v \in CleanupViews },
                           !.ok = \A v \in CleanupViews : done[v] = rooms[v]]

\* onPacket with no handler name for a CONNECT packet.
MessageOf_noconnect(type, msg) ==
    CASE type = "DISCONNECT" -> "disconnection"
      [] type = "ERROR" -> "error"
      [] OTHER -> msg

\* onPacket's handler name for a packet type; msg is decoder.Message().
MessageOf(type, msg) ==
    CASE type = "CONNECT" -> "connection"
      [] type = "DISCONNECT" -> "disconnection"
      [] type = "ERROR" -> "error"
      [] OTHER -> msg

\* onPacket closes the decoder of a packet that is no ACK and whose handler
\* name has no entry in the handler table (ok: it has one).
OnPacketCloses_never(isAck, ok) == FALSE

OnPacketCloses(isAck, ok) == ~isAck /\ ~ok

\* socket.loop up to the read loop: encode the root CONNECT, dispatch it
\* locally through the root view (decoder nil, return values dropped).
LoopStart ==
    /\ pc = "start"
    /\ IF ~EncodeOk(conn)
       THEN /\ \E done \in CleanupDone :
                 Cleanup("connect", [NoLast EXCEPT !.op = "start"], done)
            /\ UNCHANGED << connDisp, conn, events, connected, id, acks, nextTok, invoked, fate,
                            task, wire, sentDisc >>
       ELSE /\ pc' = "read"
            /\ held' = (held \/ MessageOf("CONNECT", "") \in events[namespace(Root)])
            /\ connDisp' = connDisp \cup {namespace(Root)}
            /\ last' = [NoLast EXCEPT !.op = "start", !.type = "CONNECT",
                                      !.view = namespace(Root),
                                      !.msg = MessageOf("CONNECT", ""),
                                      !.called = MessageOf("CONNECT", "")
                                                    \in events[namespace(Root)]]
            /\ UNCHANGED << exitReason, conn, events, rooms, disconnected, recvDisc,
                            connected, members, id, acks, nextTok, invoked, fate,
                            task, wire, sentDisc >>

\* decoder.Decode fails: the transport is closed.
LoopReadClosed ==
    /\ pc = "read"
    /\ conn = "closed"
    /\ \E done \in CleanupDone :
          Cleanup("read", [NoLast EXCEPT !.op = "read"], done)
    /\ UNCHANGED << connDisp, conn, events, connected, id, acks, nextTok, invoked, fate, task,
                    wire, sentDisc >>

\* decoder.Decode fails: the peer sent a frame that is no packet.
LoopReadGarbage ==
    /\ pc = "read"
    /\ conn = "open"
    /\ \E done \in CleanupDone :
          Cleanup("read", [NoLast EXCEPT !.op = "read"], done)
    /\ UNCHANGED << connDisp, conn, events, connected, id, acks, nextTok, invoked, fate, task,
                    wire, sentDisc >>

\* onAck without the delete(h.socket.acks, id).
OnAckTable_keep(table, i) == table

\* socketHandler.onAck: the ack table after the lookup of id.
OnAckTable(table, i) == [table EXCEPT ![i] = NoCaller]

\* The error socket.loop tests after ns.onPacket returned (ret, err):
\* "data" for a DecodeData error, "handler" for a handler's error, "" for nil.
LoopErr(decErr, herr) ==
    IF decErr THEN "data" ELSE IF herr THEN "handler" ELSE ""

\* One iteration of the read loop on an inbound packet
\*   type, nsp, pid : the packet's Type, NSP and Id
\*   msg            : the event name of an EVENT payload
\* and, chosen where the code reads them,
\*   dataOk         : decoder.DecodeData succeeds
\*   retV           : what the handler returns
\*   cut            : the transport closes while the packet is dispatched
LoopPacket(type, nsp, pid, msg) ==
    /\ pc = "read"
    /\ conn = "open"
    /\ LET ns == namespace(nsp)
           isAck == type \in AckTypes
           \* onAck
           c == acks[pid]
           found == isAck /\ ns # NoView /\ c # NoCaller
           \* handler dispatch
           message == MessageOf(type, msg)
           ok == ~isAck /\ ns # NoView /\ message \in events[ns]
           wantsAck == type \in EventTypes /\ pid >= 0
       IN  \E dataOk \in IF ok \/ found THEN BOOLEAN ELSE {TRUE} :
           \E retV \in IF ok /\ dataOk THEN HandlerReturns ELSE { << >> } :
           LET ackCalled == found /\ dataOk
               called == ok /\ dataOk
               herr == called /\ HasErr(retV)
               ret == IF called THEN RetData(retV) ELSE << >>
               err == IF isAck THEN (IF found /\ ~dataOk THEN "data" ELSE "")
                      ELSE LoopErr(ok /\ ~dataOk, herr)
           IN  \E cut \in IF err = "" /\ wantsAck THEN BOOLEAN ELSE {FALSE} :
               LET conn1 == IF cut THEN "closed" ELSE conn
                   ackSent == err = "" /\ wantsAck /\ EncodeOk(conn1)
                   obs == [NoLast EXCEPT !.op = "packet", !.type = type, !.nsp = nsp,
                              !.id = pid, !.view = ns, !.msg = message,
                              !.called = called,
                              !.closed = ns # NoView /\ OnPacketCloses(isAck, ok),
                              !.discCalled = IF called /\ type = "DISCONNECT"
                                             THEN {ns} ELSE {},
                              !.herr = herr, !.found = found,
                              !.tok = IF found THEN c ELSE 0,
                              !.expected = isAck /\ pid \in wire,
                              !.wasDisc = ns # NoView /\ disconnected[ns],
                              !.ack = IF ackSent THEN << pid, nsp, ret >> ELSE << >>]
               IN  /\ conn' = conn1
                   /\ connDisp' = IF type = "CONNECT" /\ ns # NoView
                                  THEN connDisp \cup {ns} ELSE connDisp
                   /\ acks' = IF found THEN OnAckTable(acks, pid) ELSE acks
                   /\ invoked' = IF ackCalled THEN [invoked EXCEPT ![c] = @ + 1]
                                 ELSE invoked
                   /\ wire' = IF isAck THEN wire \ {pid} ELSE wire
                   /\ fate' = IF found /\ ~dataOk THEN [fate EXCEPT ![c] = "decode"]
                              ELSE fate
                   /\ IF ns = NoView
                      THEN \* a nil view: the call panics, the deferred cleanup runs
                           /\ \E done \in CleanupDone : Cleanup("panic", obs, done)
                           /\ UNCHANGED connected
                      ELSE IF err # ""
                      THEN /\ \E done \in CleanupDone : Cleanup(err, obs, done)
                           /\ UNCHANGED connected
                      ELSE IF wantsAck /\ ~ackSent
                      THEN /\ \E done \in CleanupDone : Cleanup("ackEncode", obs, done)
                           /\ UNCHANGED connected
                      ELSE /\ connected' = IF type = "CONNECT"
                                           THEN [connected EXCEPT ![ns] = TRUE]
                                           ELSE connected
                           /\ IF type = "DISCONNECT"
                              THEN \E done \in SUBSET rooms[ns] :
                                     /\ members' = LeaveAllMembers(members, ns, done)
                                     /\ rooms' = [rooms EXCEPT ![ns] = LeaveAllRooms(ns)]
                                     /\ disconnected' =
                                            [disconnected EXCEPT ![ns] = TRUE]
                                     /\ recvDisc' = recvDisc \cup {ns}
                                     /\ last' = [obs EXCEPT
                                                   !.had = rooms[ns],
                                                   !.left = LeaveAllNames(ns, done),
                                                   !.ok = done = rooms[ns]]
                              ELSE /\ last' = obs
                                   /\ UNCHANGED << members, rooms, disconnected, recvDisc >>
                           /\ held' = (held \/ called \/ ackCalled)
                           /\ UNCHANGED << pc, exitReason >>
    /\ UNCHANGED << events, id, nextTok, task, sentDisc >>

(* ------------------------------- Emit --------------------------------- *)

\* Event names the application emits.
EmitEvents == {"ping", "disconnect"}

\* nspEmit with a last argument that newCaller rejects: the error is returned.
EmitRejected(v, event) ==
    /\ held
    /\ last' = [NoLast EXCEPT !.op = "rejected", !.view = v]
    /\ UNCHANGED << connDisp, pc, exitReason, conn, events, rooms, disconnected, recvDisc, connected,
                    members, id, acks, nextTok, invoked, fate, task, wire, sentDisc, held >>

\* Emit without a continuation: send(args), then Disconnect() when the event
\* is "disconnect" and the packet was encoded.
EmitPlain(v, event) ==
    LET sent == EncodeOk(conn)
        disc == sent /\ event = "disconnect"
    IN  /\ held
        /\ conn' = IF disc THEN DisconnectConn(v, conn) ELSE conn
        /\ sentDisc' = IF disc THEN DisconnectSent(v, conn, sentDisc) ELSE sentDisc
        /\ last' = [NoLast EXCEPT !.op = "emit", !.view = v, !.ok = sent, !.msg = event,
                                  !.ack = IF sent THEN << -1, v >> ELSE << >>]
        /\ UNCHANGED << connDisp, pc, exitReason, held, events, rooms, disconnected, recvDisc, connected,
                        members, id, acks, nextTok, invoked, fate, task, wire >>

\* Emit with a continuation, first part of sendId: under n.mu the packet takes
\* the counter's value and the counter advances.
EmitReserve(t, v, event) ==
    /\ held
    /\ task[t].pc = "idle"
    /\ nextTok <= MaxEmits
    /\ task' = [task EXCEPT ![t] = [pc |-> "reserved", view |-> v, event |-> event,
                                    pktId |-> id, ret |-> -1, tok |-> nextTok]]
    /\ id' = NextId(id)
    /\ nextTok' = nextTok + 1
    /\ last' = [NoLast EXCEPT !.op = "reserve"]
    /\ UNCHANGED << connDisp, pc, exitReason, conn, events, rooms, disconnected, recvDisc, connected,
                    members, acks, invoked, fate, wire, sentDisc, held >>

\* What sendId returns after encoder.Encode: the id, and the error.
SendIdRet(encoded, pktId) == IF encoded THEN pktId ELSE -1
SendIdErr(encoded) == FALSE

\* Second part of sendId: the packet is encoded to the transport.
EmitEncode(t) ==
    /\ task[t].pc = "reserved"
    /\ LET encoded == EncodeOk(conn)
       IN  /\ wire' = IF encoded THEN wire \cup {task[t].pktId} ELSE wire
           /\ task' = [task EXCEPT ![t] =
                         IF SendIdErr(encoded) THEN IdleTask
                         ELSE [@ EXCEPT !.pc = "encoded",
                                        !.ret = SendIdRet(encoded, task[t].pktId)]]
           /\ last' = [NoLast EXCEPT !.op = "encode", !.ok = encoded]
    /\ UNCHANGED << connDisp, pc, exitReason, conn, events, rooms, disconnected, recvDisc, connected,
                    members, id, acks, nextTok, invoked, fate, sentDisc, held >>

\* nspEmit after sendId returned no error: n.acks[id] = c under acksmu; then
\* Emit calls Disconnect() when the event is "disconnect".
EmitStore(t) ==
    /\ task[t].pc = "encoded"
    /\ LET v == task[t].view
           disc == task[t].event = "disconnect"
           old == acks[task[t].ret]
       IN  /\ acks' = [acks EXCEPT ![task[t].ret] = task[t].tok]
           /\ fate' = IF old # NoCaller THEN [fate EXCEPT ![old] = "replaced"]
                      ELSE fate
           /\ conn' = IF disc THEN DisconnectConn(v, conn) ELSE conn
           /\ sentDisc' = IF disc THEN DisconnectSent(v, conn, sentDisc) ELSE sentDisc
           /\ last' = [NoLast EXCEPT !.op = "emit", !.view = v, !.ok = TRUE,
                                     !.msg = task[t].event,
                                     !.id = task[t].pktId, !.tok = task[t].tok,
                                     !.ack = IF task[t].ret = task[t].pktId
                                             THEN << task[t].pktId, v >> ELSE << >>]
    /\ task' = [task EXCEPT ![t] = IdleTask]
    /\ UNCHANGED << connDisp, pc, exitReason, held, events, rooms, disconnected, recvDisc, connected,
                    members, id, nextTok, invoked, wire >>

(* ------------------------------ Next ---------------------------------- *)

\* The ids and event names an inbound packet of a type carries (one value
\* where the code does not read the field).
PacketIds(type) ==
    IF type \in AckTypes THEN AckIds ELSE IF type \in EventTypes THEN EventIds ELSE {-1}
PacketMsgs(type) == IF type \in EventTypes THEN Messages ELSE {"hello"}

\* The steps of socket.loop, on inbound packets of the given types and NSPs.
Loop(types, nsps) ==
    \/ LoopStart
    \/ LoopReadClosed
    \/ LoopReadGarbage
    \/ \E type \in types, nsp \in nsps :
          \E pid \in PacketIds(type), msg \in PacketMsgs(type) :
             LoopPacket(type, nsp, pid, msg)

RoomCalls ==
    \/ \E v \in Namespaces, room \in RoomArgs, aerr \in BOOLEAN : Join(v, room, aerr)
    \/ \E v \in Namespaces, room \in RoomArgs, aerr \in BOOLEAN : Leave(v, room, aerr)

EmitCalls(tasks, events1) ==
    \/ \E v \in Namespaces, event \in EmitEvents : EmitRejected(v, event)
    \/ \E v \in Namespaces, event \in EmitEvents : EmitPlain(v, event)
    \/ \E t \in tasks, v \in Namespaces, event \in events1 : EmitReserve(t, v, event)
    \/ \E t \in tasks : EmitEncode(t)
    \/ \E t \in tasks : EmitStore(t)

OnCalls ==
    \E a \in OnArgs, valid \in BOOLEAN : On(a[1], a[2], valid)

DisconnectCalls ==
    \E v \in Namespaces : Disconnect(v)

\* Every step of the connection, its peer and its application.
Next ==
    \/ Loop(PacketTypes, WireNsps)
    \/ PeerClose
    \/ RoomCalls
    \/ DisconnectCalls
    \/ OnCalls
    \/ EmitCalls(Tasks, EmitEvents)

Spec == Init /\ [][Next]_vars

\* The connection under an application that joins and leaves rooms, and a
\* peer that sends EVENT and DISCONNECT packets and closes the transport.  The
\* steps left out (On, Emit, Disconnect, the other packet types) leave rooms
\* and the adaptor's membership unchanged.
NextRooms ==
    \/ Loop({"EVENT", "DISCONNECT"}, WireNsps)
    \/ PeerClose
    \/ RoomCalls

SpecRooms == Init /\ [][NextRooms]_vars

\* The connection under an application that registers handlers and
\* disconnects, and a peer that sends events and DISCONNECT packets.
NextDispatch ==
    \/ Loop({"EVENT", "BINARY_EVENT", "DISCONNECT"}, WireNsps)
    \/ PeerClose
    \/ OnCalls
    \/ DisconnectCalls

SpecDispatch == Init /\ [][NextDispatch]_vars

\* The connection under an application task that emits, with and without a
\* continuation, and a peer that answers with ACK and BINARY_ACK packets.
NextAcks ==
    \/ Loop(AckTypes, Namespaces)
    \/ PeerClose
    \/ EmitCalls({"t1"}, {"ping"})

SpecAcks == Init /\ [][NextAcks]_vars

\* The connection under a peer that connects to namespaces and disconnects
\* from them, and an application that registers handlers and disconnects.
NextConnect ==
    \/ Loop({"CONNECT", "DISCONNECT"}, WireNsps)
    \/ PeerClose
    \/ OnCalls
    \/ DisconnectCalls

SpecConnect == Init /\ [][NextConnect]_vars

\* The connection under an application that registers handlers and emits,
\* with callables that newCaller accepts or rejects, and a peer that answers
\* with ACK packets.
NextReject ==
    \/ Loop({"ACK"}, {Root})
    \/ PeerClose
    \/ OnCalls
    \/ EmitCalls({"t1"}, {"ping"})

SpecReject == Init /\ [][NextReject]_vars

\* The connection under two application tasks that emit concurrently, and a
\* peer that answers with ACK packets.
NextConc ==
    \/ Loop({"ACK"}, {Root})
    \/ PeerClose
    \/ EmitCalls(Tasks, {"ping"})

SpecConc == Init /\ [][NextConc]_vars

\* The connection under an application that disconnects, by Disconnect() and
\* by emitting "disconnect", with the loop scheduled: it is a goroutine of its
\* own, its Encode and Decode return once the transport is closed, and
\* handlers return.
NextLive ==
    \/ Loop({"DISCONNECT"}, Namespaces)
    \/ PeerClose
    \/ DisconnectCalls
    \/ EmitCalls({"t1"}, {"disconnect"})

SpecLive ==
    Init /\ [][NextLive]_vars /\ WF_vars(LoopStart) /\ WF_vars(LoopReadClosed)

(* ------------------------------ claims -------------------------------- *)

\* The continuations an ack-expecting Emit has put into the ack table.
Installed == { k \in Toks : k < nextTok /\ \A t \in Tasks : task[t].tok # k }

\* Continuation k is an entry of the ack table.
InTable(k) == \E i \in AckIds : acks[i] = k

\* C1 (as stated): once the loop has exited, every continuation that an Emit
\* put into the ack table was either called once by a matching ACK and
\* removed, or is still in the table and was never called.
C1_Original ==
    pc = "closed" =>
        \A k \in Installed :
            \/ invoked[k] = 1 /\ ~InTable(k)
            \/ invoked[k] = 0 /\ InTable(k)

\* C1 (amended): every continuation that an Emit put into the ack table is in
\* exactly one of three conditions: called once by a matching ACK and removed;
\* still in the table and never called; or removed without a call, by a
\* matching ACK whose payload did not decode or by a later Emit stored under
\* the same id.  No continuation is called twice.
C1_AckExactlyOnce ==
    /\ \A k \in Toks : invoked[k] <= 1
    /\ \A k \in Toks \ Installed : invoked[k] = 0 /\ fate[k] = ""
    /\ \A k \in Installed :
          \/ invoked[k] = 1 /\ ~InTable(k) /\ fate[k] = ""
          \/ invoked[k] = 0 /\ InTable(k) /\ fate[k] = ""
          \/ invoked[k] = 0 /\ ~InTable(k) /\ fate[k] # ""

\* C1 witness: the loop has exited; one continuation was called by its ACK,
\* another is still in the table, and the peer's last ACK found no entry.
C1_Witness ==
    /\ pc = "closed"
    /\ \E k1, k2 \in Installed :
          invoked[k1] = 1 /\ ~InTable(k1) /\ invoked[k2] = 0 /\ InTable(k2)

\* C2: when an ack-expecting Emit returns nil, the packet it emitted carries
\* an Id >= 0 and the ack table maps that Id to the continuation.
C2_EmitInstallsUnderPacketId ==
    (last.op = "emit" /\ last.ok /\ last.tok # 0) =>
        last.id >= 0 /\ acks[last.id] = last.tok

\* C3: an inbound EVENT or BINARY_EVENT with Id >= 0 whose handler returned
\* (with or without an error), or that has no handler, is answered by an ACK
\* with the same Id and NSP before the loop goes on.
C3_AckAfterEvent ==
    (/\ last.op = "packet"
     /\ last.type \in EventTypes
     /\ last.id >= 0
     /\ last.called \/ last.msg \notin events[last.view]
     /\ conn = "open") =>
        /\ last.ack # << >>
        /\ last.ack[1] = last.id
        /\ last.ack[2] = last.nsp

\* C4: right after the loop has exited, every view is disconnected and its
\* room set is empty.
C4_ExitLeavesNoRooms ==
    last.exit => \A v \in Namespaces : disconnected[v] /\ rooms[v] = {}

\* C5: the cleanup passes the canonical name of every room a view holds to
\* the adaptor's Leave, and afterwards the adaptor holds the socket in none of
\* them (when the adaptor returned no error).
C5_CleanupLeavesCanonicalNames ==
    (last.exit /\ last.ok) =>
        /\ last.had \subseteq last.left
        /\ last.had \cap members = {}

\* C6: after a successful Leave(r) on view s (whatever was joined and left
\* before), the canonical name of r is not in s.Rooms() and the adaptor does
\* not hold the socket in it.
C6_JoinThenLeave ==
    (last.op = "leave" /\ last.ok) =>
        /\ last.name \notin Rooms(last.view)
        /\ last.name \notin rooms[last.view]
        /\ last.name \notin members

\* C6 witness: a Leave of a room the view had joined, while the view still
\* holds another room.
C6_Witness ==
    /\ last.op = "leave"
    /\ last.ok
    /\ last.was
    /\ Rooms(last.view) # {}

\* C7: an ACK whose id the peer took from an ack-expecting EVENT it received
\* finds the entry in the ack table.
C7_MatchingAckFindsEntry ==
    (last.op = "packet" /\ last.type \in AckTypes /\ last.expected) => last.found

\* C8: a view's disconnected flag is set iff the view has sent or received a
\* DISCONNECT, and no handler is dispatched on a disconnected view.
C8_DisconnectedIffDisconnect ==
    /\ \A v \in Namespaces : disconnected[v] <=> (v \in sentDisc \/ v \in recvDisc)
    /\ (last.op = "packet" /\ last.wasDisc) => ~last.called

\* C9: a handler that returns an error does not end the loop.
C9_HandlerErrorKeepsLoop ==
    (last.op = "packet" /\ last.herr) => (pc = "read" /\ ~last.exit)

\* The view the claim C10 names for an NSP.
C10_View(nsp) == IF nsp \in Namespaces THEN nsp ELSE Root

\* C10: a packet is dispatched through the view of its NSP when the server
\* registered that namespace and through the root view otherwise, with that
\* view's handler table; and the loop ends after a packet only for a handler's
\* error, a payload that does not decode or a failed ACK write, never for the
\* packet's namespace.
C10_NamespaceFallback ==
    /\ exitReason \notin {"panic", "unknownNS"}
    /\ last.op = "packet" =>
          /\ last.view = C10_View(last.nsp)
          /\ last.called => last.msg \in events[C10_View(last.nsp)]
          /\ (last.msg \in events[C10_View(last.nsp)] /\ ~last.called)
                => exitReason = "data"
          /\ last.exit =>
                \/ exitReason = "handler" /\ last.herr
                \/ exitReason = "data" /\ last.msg \in events[C10_View(last.nsp)]
                \/ exitReason = "ackEncode" /\ conn = "closed"

\* C10 witness: an EVENT for the unregistered namespace ran the root
\* namespace's handler and the loop reads on.
C10_Witness ==
    /\ last.op = "packet"
    /\ last.nsp = Nope
    /\ last.view = Root
    /\ last.called
    /\ "hello" \notin events[Chat]
    /\ pc = "read"

\* C11: an inbound EVENT whose name has no entry in the handler table of its
\* view closes the decoder, calls no handler and gives the loop no error; while
\* the transport stays open the loop reads on, and no view becomes
\* disconnected.
C11_UnknownEventClosesDecoder ==
    [][(/\ last'.op = "packet"
        /\ last'.type \in EventTypes
        /\ last'.msg \notin events[last'.view]) =>
           /\ last'.closed
           /\ ~last'.called
           /\ exitReason' \notin {"data", "handler"}
           /\ conn' = "open" =>
                 /\ pc' = "read"
                 /\ ~last'.exit
                 /\ disconnected' = disconnected]_vars

\* C11 witness: an EVENT "xyzzy" that asks for an ACK found no handler; the
\* decoder was closed, the ACK was sent and the loop reads on.
C11_Witness ==
    /\ last.op = "packet"
    /\ last.type \in EventTypes
    /\ last.msg = "xyzzy"
    /\ last.closed
    /\ ~last.called
    /\ last.ack # << >>
    /\ pc = "read"
    /\ \E v \in Namespaces : ~disconnected[v]

\* C12: the ack id counter and the id of every ack-expecting Emit stay within
\* 0..MaxInt; an Emit takes the counter's value as its id and the counter
\* advances by one, from MaxInt to 0; storing a continuation leaves the
\* entries under other ids in the table, and an ACK whose id has an entry
\* finds it, removes only it and (when its payload decodes) calls it.
C12_AckIdWraps ==
    /\ [](/\ id \in 0..MaxInt
          /\ \A t \in Tasks : task[t].pc # "idle" => task[t].pktId \in 0..MaxInt)
    /\ [][\A t \in Tasks :
            /\ (task[t].pc = "idle" /\ task'[t].pc = "reserved") =>
                  /\ task'[t].pktId = id
                  /\ id' = IF id = MaxInt THEN 0 ELSE id + 1
            /\ (task[t].pc = "encoded" /\ task'[t].pc = "idle") =>
                  \A i \in AckIds \ {task[t].ret} : acks'[i] = acks[i]]_vars
    /\ [][(/\ last'.op = "packet"
           /\ last'.type \in AckTypes
           /\ acks[last'.id] # NoCaller) =>
              /\ last'.found
              /\ last'.tok = acks[last'.id]
              /\ acks'[last'.id] = NoCaller
              /\ \A i \in AckIds \ {last'.id} : acks'[i] = acks[i]
              /\ ~last'.exit => invoked'[last'.tok] = invoked[last'.tok] + 1]_vars

\* C12 witness: the counter has wrapped (the Emit after the one with id MaxInt
\* was issued, with id 0), and the ACK with id MaxInt then found the entry
\* stored before the wrap and called its continuation.
C12_Witness ==
    /\ last.op = "packet"
    /\ last.type \in AckTypes
    /\ last.id = MaxInt
    /\ last.found
    /\ last.tok = MaxInt + 1
    /\ invoked[last.tok] = 1
    /\ nextTok > MaxInt + 2
    /\ id = 1

\* C13: the accept sequence (the loop's steps before its first read) runs
\* once; when it has encoded the root CONNECT it has called the root
\* namespace's "connection" handler, no inbound packet was read before, and
\* the socket the handler receives has no rooms.
C13_ConnectionHandlerOnce ==
    /\ [](/\ pc = "start" => (last.op = "none" \/ last.op = "on" \/ last.op = "close")
          /\ pc = "start" => (~held /\ connDisp = {})
          /\ (last.op = "start" /\ ~last.exit) =>
                /\ pc = "read"
                /\ last.view = Root
                /\ last.msg = "connection"
                /\ "connection" \in events[Root] => last.called
                /\ connDisp = {Root}
                /\ \A v \in Namespaces : Rooms(v) = {} /\ rooms[v] = {})
    /\ [][/\ pc # "start" => pc' # "start"
          /\ last'.op = "start" => pc = "start"]_vars

\* C13 witness: the root CONNECT was encoded and the "connection" handler of
\* the root namespace was called, before any read.
C13_Witness ==
    /\ last.op = "start"
    /\ last.called
    /\ pc = "read"
    /\ conn = "open"
    /\ Rooms(Root) = {}

\* C14: when the Encode of an ack-expecting Emit's packet fails, Emit returns
\* an error and stores nothing: the ack table never has an entry under -1, and
\* a task that goes on from sendId to the store holds the id of a packet that
\* was encoded.
C14_EncodeFailureReturnsError ==
    /\ acks[-1] = NoCaller
    /\ \A t \in Tasks : task[t].pc = "encoded" => task[t].ret = task[t].pktId
    /\ (last.op = "encode" /\ ~last.ok) => \A t \in Tasks : task[t].pc # "encoded"

\* C15: every name in a view's room set is "<N>:<R>", N the name of the
\* view's namespace and R a room the application passes to Join; the set
\* grows only by a Join on that view, by the canonical name of its room.
C15_RoomNamesPrefixed ==
    /\ [](\A v \in Namespaces : \A name \in rooms[v] :
             /\ HasPrefix(name, v \o << ":" >>)
             /\ \E r \in RoomArgs : name = v \o << ":" >> \o r)
    /\ [][\A v \in Namespaces :
             \/ rooms'[v] \subseteq rooms[v]
             \/ /\ last'.op = "join"
                /\ \E r \in RoomArgs : rooms'[v] = rooms[v] \cup {v \o << ":" >> \o r}]_vars

\* C15 witness: both views hold rooms after joins, a leave, a dispatched
\* DISCONNECT and the cleanup.
C15_Witness ==
    /\ pc = "closed"
    /\ recvDisc = Namespaces
    /\ rooms[Root] = { << ":", "a" >> }
    /\ rooms[Chat] = { << "/", "c", ":", "a" >>, << "/", "c", ":", "b" >> }

\* C16: a view's connected flag is set only after a CONNECT for the view was
\* dispatched and answered, and it is false right after a disconnect of the
\* view was signalled: a DISCONNECT dispatched to it, a DISCONNECT sent for
\* it by Disconnect(), or the cleanup.
C16_ConnectedUntilDisconnect ==
    /\ \A v \in Namespaces : connected[v] => v \in connDisp
    /\ (last.op = "packet" /\ last.type = "DISCONNECT") => ~connected[last.view]
    /\ (last.op = "disconnect" /\ last.view \in sentDisc) => ~connected[last.view]
    /\ last.exit => \A v \in Namespaces : ~connected[v]

\* C17: Disconnect() on the root view, and an Emit of "disconnect" on it that
\* returns nil, close the transport; on another view they leave the transport
\* as it is and, while it is open, send a DISCONNECT packet of the view's
\* namespace.  Once the transport is closed the loop eventually exits and its
\* cleanup leaves every view disconnected.
C17_RootDisconnectEndsLoop ==
    /\ [][(\/ last'.op = "disconnect"
           \/ last'.op = "emit" /\ last'.ok /\ last'.msg = "disconnect") =>
              IF last'.view = Root
              THEN conn' = "closed" /\ sentDisc' = sentDisc
              ELSE /\ conn' = conn
                   /\ conn = "open" => last'.view \in sentDisc'
                   /\ sentDisc' \subseteq sentDisc \cup {last'.view}]_vars
    /\ (conn = "closed") ~> (pc = "closed" /\ \A v \in Namespaces : disconnected[v])

\* C17 witness: Disconnect() on the root view has closed the transport while
\* the loop was reading.
C17_Witness ==
    /\ last.op = "disconnect"
    /\ last.view = Root
    /\ conn = "closed"
    /\ pc = "read"
    /\ \E v \in Namespaces : ~disconnected[v]

\* C18: an On or an Emit whose callable newCaller rejects changes nothing of
\* the connection: not the handler tables, the ack id counter, the ack table
\* or the packets sent (none is sent), nor any other field.
C18_RejectedCallableNoEffect ==
    [][(\/ last'.op = "on" /\ ~last'.ok
        \/ last'.op = "rejected") =>
           /\ last'.ack = << >>
           /\ UNCHANGED << events, id, acks, wire, sentDisc, conn, nextTok, task,
                           invoked, fate, pc, exitReason, rooms, members,
                           disconnected, connected, recvDisc, connDisp, held >>]_vars

\* C18 witness: an Emit with a rejected callable, on a connection that has
\* handlers registered, an advanced counter and an entry in the ack table.
C18_Witness ==
    /\ last.op = "rejected"
    /\ id = 1
    /\ acks[0] # NoCaller
    /\ "hello" \in events[Chat]
    /\ conn = "open"

\* C19: a "disconnection" handler is called on a view, by the dispatch of a
\* DISCONNECT packet or by the cleanup, only if a CONNECT was dispatched on
\* that view before (the local CONNECT of the accept sequence for the root
\* view, a peer's CONNECT for the namespace).
C19_DisconnectionAfterConnection ==
    last.discCalled \subseteq connDisp

\* C20: two tasks inside ack-expecting Emits whose emissions are fewer than
\* the counter's range apart hold different ids for the store, and a
\* continuation is replaced in the ack table only when at least as many
\* emissions as the counter's range were issued after its own.
C20_ConcurrentEmitsDistinct ==
    /\ \A t1, t2 \in Tasks :
          (/\ t1 # t2
           /\ task[t1].pc = "encoded"
           /\ task[t2].pc = "encoded"
           /\ task[t1].tok - task[t2].tok \in (-MaxInt)..MaxInt) =>
              task[t1].ret # task[t2].ret
    /\ \A k \in Toks : fate[k] = "replaced" => nextTok - 1 - k > MaxInt

====
